---- MODULE Spec2Model ----
(***************************************************************************)
(* Model of scripts/real-world-validate.py, the real-world validation      *)
(* harness of agnix: a manifest of repositories is loaded and filtered,    *)
(* a thread pool clones each repository, runs the agnix binary on the      *)
(* clone and writes one JSON record per slug; the main thread collects     *)
(* the futures as they complete and prints an aggregate.                   *)
(*                                                                         *)
(* Python strings are sequences of characters (one-character TLA+          *)
(* strings); a fixed message of the program is a one-element sequence      *)
(* holding the whole message.  A value that may be None is a sequence of   *)
(* length 0 (None) or 1.                                                   *)
(***************************************************************************)
EXTENDS Integers, Sequences, FiniteSets, TLC

None == <<>>
Some(x) == <<x>>

(***************************************************************************)
(* Bounds of the model.                                                    *)
(***************************************************************************)
\* longest manifest drawn
MaxEntries == 3
\* largest --parallel drawn
MaxParallel == 2
\* runs of the harness over the same output directory
MaxRuns == 2
\* largest --timeout drawn when run_agnix is checked on its own
MaxTimeout == 2
\* longest manifest drawn when termination is checked
MaxLiveEntries == 2

\* argparse default of --timeout (seconds)
DefaultTimeout == 120
\* fixed timeout of the git clone (seconds)
CloneTimeout == 120

(***************************************************************************)
(* String helpers: str.rstrip("/"), str.split("/"), str.strip(),           *)
(* str.lower() and the substring test `a in b`.                            *)
(***************************************************************************)
RECURSIVE rstrip(_, _)
rstrip(s, c) ==
    IF Len(s) > 0 /\ s[Len(s)] = c THEN rstrip(SubSeq(s, 1, Len(s) - 1), c) ELSE s

RECURSIVE lstrip(_, _)
lstrip(s, c) ==
    IF Len(s) > 0 /\ s[1] = c THEN lstrip(Tail(s), c) ELSE s

\* str.strip(): whitespace is the character " "
strip(s) == lstrip(rstrip(s, " "), " ")

\* str.split(sep): always at least one part; a separator at either end
\* gives an empty part there
RECURSIVE split(_, _)
split(s, sep) ==
    IF \A i \in 1..Len(s) : s[i] # sep
    THEN <<s>>
    ELSE LET k == CHOOSE i \in 1..Len(s) :
                      s[i] = sep /\ \A j \in 1..(i - 1) : s[j] # sep
         IN  <<SubSeq(s, 1, k - 1)>> \o split(SubSeq(s, k + 1, Len(s)), sep)

LowerChar(c) == IF c = "A" THEN "a" ELSE IF c = "R" THEN "r" ELSE c
lower(s) == [i \in 1..Len(s) |-> LowerChar(s[i])]

\* Python's `a in b` on strings
Contains(b, a) ==
    \E i \in 0..(Len(b) - Len(a)) : SubSeq(b, i + 1, i + Len(a)) = a

(***************************************************************************)
(* repo_slug: the last two "/"-separated parts of the URL joined by "--".  *)
(* parts[-2] raises IndexError when the URL has a single part.             *)
(***************************************************************************)
slug_parts(url) == split(rstrip(url, "/"), "/")
slug_raises(url) == Len(slug_parts(url)) < 2
repo_slug(url) ==
    LET parts == slug_parts(url)
    IN  parts[Len(parts) - 1] \o <<"-", "-">> \o parts[Len(parts)]

(***************************************************************************)
(* Manifest entries: dictionaries with optional keys url, status and       *)
(* categories.                                                             *)
(***************************************************************************)
Entry(url, status, cats) == [url |-> url, status |-> status, categories |-> cats]

\* dict.get(key, default)
GetOr(opt, default) == IF opt = None THEN default ELSE opt[1]

\* load_repos on a manifest that parsed; the options are None or Some(value),
\* status_filter is a string ("" is falsy); a list comprehension
\* [r for r in repos if keep(r)] is SelectSeq(repos, keep)
status_keep(r, status_filter) == GetOr(r.status, "pending") = status_filter
category_keep(r, category) == category \in GetOr(r.categories, {})
url_keep(r, pattern) == Contains(lower(r.url[1]), lower(pattern))

by_status(repos, status_filter) ==
    IF status_filter # ""
    THEN LET keep(r) == status_keep(r, status_filter) IN SelectSeq(repos, keep)
    ELSE repos

by_category(repos, category) ==
    IF category # None /\ category[1] # ""
    THEN LET keep(r) == category_keep(r, category[1]) IN SelectSeq(repos, keep)
    ELSE repos

\* r["url"] raises KeyError for an entry without url that reaches the URL filter
url_filter_raises(repos, pattern) ==
    /\ pattern # None /\ pattern[1] # <<>>
    /\ \E i \in 1..Len(repos) : repos[i].url = None

by_url(repos, pattern) ==
    IF pattern # None /\ pattern[1] # <<>>
    THEN LET keep(r) == url_keep(r, pattern[1]) IN SelectSeq(repos, keep)
    ELSE repos

load_repos_raises(data, pattern, category, status_filter) ==
    url_filter_raises(by_category(by_status(data, status_filter), category), pattern)

load_repos(data, pattern, category, status_filter) ==
    by_url(by_category(by_status(data, status_filter), category), pattern)

\* repos[:args.limit] when args.limit is truthy (Python slicing: a negative
\* limit drops that many entries from the end)
apply_limit(repos, limit) ==
    IF limit = None \/ limit[1] = 0 THEN repos
    ELSE IF limit[1] > 0
         THEN SubSeq(repos, 1, IF limit[1] < Len(repos) THEN limit[1] ELSE Len(repos))
         ELSE SubSeq(repos, 1, Len(repos) + limit[1])

(***************************************************************************)
(* clone_repo.  What git does is a value of the environment:               *)
(* [kind, returncode, stderr, dur]; kind "exc" is a failure to launch it   *)
(* (text is the exception's), dur is how long it runs, in seconds.         *)
(***************************************************************************)
Git(kind, rc, err, dur) == [kind |-> kind, returncode |-> rc, stderr |-> err, dur |-> dur]

\* the early return when clone_dir exists
already_cloned == [ok |-> TRUE, msg |-> <<"already cloned">>]

\* the try block around subprocess.run(cmd, timeout=120)
clone_result(git) ==
    IF git.kind = "exc" THEN [ok |-> FALSE, msg |-> git.stderr]
    ELSE IF git.dur > CloneTimeout THEN [ok |-> FALSE, msg |-> <<"clone timeout">>]
    ELSE IF git.returncode # 0 THEN [ok |-> FALSE, msg |-> strip(git.stderr)]
    ELSE [ok |-> TRUE, msg |-> <<"ok">>]

\* the clone directory once git has ended: a clone that succeeded is
\* complete, one that git gave up removes what it created, one that was
\* killed at the timeout leaves what it had fetched
dir_after(git) ==
    IF git.dur > CloneTimeout THEN "partial"
    ELSE IF git.returncode # 0 THEN "absent"
    ELSE "complete"

(***************************************************************************)
(* run_agnix.  What the tool does is a value of the environment:           *)
(* [kind, returncode, stdout, stderr, dur]; stdout is                      *)
(* [kind |-> "obj" | "other" | "null" | "text" | "deep" | "bytes",          *)
(* diagnostics]: a JSON object, another JSON value, the JSON null, text    *)
(* that is not JSON, text nested deeper than the parser recurses, or bytes *)
(* that are not text.  For kind "exc", a failure to launch, stderr holds   *)
(* the exception's text.                                                   *)
(***************************************************************************)
Tool(kind, rc, out, err, dur) ==
    [kind |-> kind, returncode |-> rc, stdout |-> out, stderr |-> err, dur |-> dur]

Stdout(kind, diags) == [kind |-> kind, diagnostics |-> diags]

\* json.loads(result.stdout) with JSONDecodeError turned into None: an object
\* or any other JSON value is returned as parsed, the literal null is None
json_loads_or_none(out) ==
    IF out.kind \in {"text", "null"} THEN None
    ELSE Some([kind |-> out.kind, diagnostics |-> out.diagnostics])

Outcome(code, output, err, ms) ==
    [exit_code |-> code, output |-> output, stderr |-> err, wall_time_ms |-> ms]

\* a timeout reported with the launch failure's duration
timeout_outcome_zero_ms(timeout) == Outcome(-1, None, Some(<<"agnix timeout">>), 0)

timeout_outcome(timeout) == Outcome(-1, None, Some(<<"agnix timeout">>), timeout * 1000)

failure_outcome(text) == Outcome(-1, None, Some(text), 0)

completed_outcome(tool) ==
    Outcome(tool.returncode, json_loads_or_none(tool.stdout),
            IF tool.stderr # <<>> THEN Some(strip(tool.stderr)) ELSE None,
            tool.dur * 1000)

timed_out(tool, timeout) == tool.dur > timeout

\* the exception raised inside the outer try block, None when there is none:
\* subprocess.run raises OSError when the tool cannot be launched,
\* TimeoutExpired when it runs too long, UnicodeDecodeError (text=True) when
\* what it printed is not text; json.loads raises RecursionError on text
\* nested too deep, and its JSONDecodeError is caught by the inner try
raised_in_try(tool, timeout) ==
    IF tool.kind = "exc" THEN Some("OSError")
    ELSE IF timed_out(tool, timeout) THEN Some("TimeoutExpired")
    ELSE IF tool.stdout.kind = "bytes" THEN Some("UnicodeDecodeError")
    ELSE IF tool.stdout.kind = "deep" THEN Some("RecursionError")
    ELSE None

\* str(e) of the two exceptions raised after the tool has printed
decode_error == <<"'utf-8' codec can't decode byte">>
recursion_error == <<"maximum recursion depth exceeded while decoding a JSON array">>

\* handlers that catch the timeout only
handled_timeout_only(exc) == exc = "TimeoutExpired"

\* except subprocess.TimeoutExpired and except Exception: every exception
\* of the try block is a subclass of Exception
handled(exc) ==
    exc \in {"OSError", "TimeoutExpired", "UnicodeDecodeError", "RecursionError"}

run_agnix_raises(tool, timeout) ==
    raised_in_try(tool, timeout) # None /\ ~handled(raised_in_try(tool, timeout)[1])

\* what run_agnix returns when it returns
run_agnix(tool, timeout) ==
    LET exc == raised_in_try(tool, timeout)
    IN  IF exc = None THEN completed_outcome(tool)
        ELSE IF exc[1] = "TimeoutExpired" THEN timeout_outcome(timeout)
        ELSE IF exc[1] = "OSError" THEN failure_outcome(tool.stderr)
        ELSE IF exc[1] = "UnicodeDecodeError" THEN failure_outcome(decode_error)
        ELSE failure_outcome(recursion_error)

(***************************************************************************)
(* The result dictionaries process_repo builds.                            *)
(***************************************************************************)
Record(url, slug, cats, ok, err, agnix) ==
    [url |-> url, slug |-> slug, categories |-> cats,
     clone_success |-> ok, clone_error |-> err, agnix |-> agnix]

clone_failed_record(repo, msg) ==
    Record(repo.url[1], repo_slug(repo.url[1]), GetOr(repo.categories, {}),
           FALSE, Some(msg), None)

no_directory_record(repo) ==
    clone_failed_record(repo, <<"clone directory not found (use without --skip-clone)">>)

\* a record of a validated entry that reports the clone as failed
validated_record_clone_failed(repo, agnix_result) ==
    Record(repo.url[1], repo_slug(repo.url[1]), GetOr(repo.categories, {}),
           FALSE, None, Some(agnix_result))

validated_record(repo, agnix_result) ==
    Record(repo.url[1], repo_slug(repo.url[1]), GetOr(repo.categories, {}),
           TRUE, None, Some(agnix_result))

\* print_summary raises AttributeError at output.get when the parsed output
\* is not a dictionary
print_summary_raises(result) ==
    /\ result.clone_success
    /\ result.agnix[1].output # None
    /\ result.agnix[1].output[1].kind # "obj"

\* the aggregate loop of main raises the same way
aggregate_raises(results) ==
    \E k \in 1..Len(results) : print_summary_raises(results[k])

\* for d in diags: rule = d.get("rule", "?"); rules_global[rule] += 1, the
\* dictionary being a function on the rules met so far
RECURSIVE count_rules(_, _)
count_rules(diags, rules_global) ==
    IF diags = <<>> THEN rules_global
    ELSE LET rule == GetOr(diags[1].rule, "?")
         IN  count_rules(Tail(diags),
                         IF rule \in DOMAIN rules_global
                         THEN [rules_global EXCEPT ![rule] = @ + 1]
                         ELSE rules_global @@ (rule :> 1))

\* one iteration of the aggregate loop on record r
aggregate_step(acc, r) ==
    IF ~r.clone_success THEN acc
    ELSE IF r.agnix[1].output = None THEN acc
    ELSE LET diags == r.agnix[1].output[1].diagnostics
         IN  [total_diags |-> acc.total_diags + Len(diags),
              clean_repos |-> IF diags = <<>> THEN acc.clean_repos + 1
                              ELSE acc.clean_repos,
              rules_global |-> count_rules(diags, acc.rules_global)]

\* the aggregate loop over results[k..], from the totals so far
RECURSIVE aggregate_from(_, _, _)
aggregate_from(results, k, acc) ==
    IF k > Len(results) THEN acc
    ELSE aggregate_from(results, k + 1, aggregate_step(acc, results[k]))

aggregate(results) ==
    aggregate_from(results, 1,
                   [total_diags |-> 0, clean_repos |-> 0,
                    rules_global |-> [rule \in {} |-> 0]])

(***************************************************************************)
(* What the harness is run on.                                             *)
(***************************************************************************)
UrlA == <<"a", "/", "r">>
UrlB == <<"a", "/", "q", "/">>
\* a URL of one part: repo_slug raises
UrlBad == <<"r">>

Entries ==
    { Entry(Some(u), None, None) : u \in {UrlA, UrlB, UrlBad} }
        \cup { Entry(None, None, None) }

Manifests == UNION { [1..n -> Entries] : n \in 0..MaxEntries }

Slugs == { repo_slug(u) : u \in {UrlA, UrlB} }

Gits ==
    { Git("run", 0, <<>>, 0),
      Git("run", 1, <<"e", " ">>, 0),
      Git("run", 0, <<>>, CloneTimeout + 1) }

Tools ==
    { Tool("run", 0, Stdout("obj", <<>>), <<>>, 0),
      Tool("run", 0, Stdout("other", <<>>), <<>>, 0),
      Tool("run", 0, Stdout("obj", <<>>), <<>>, DefaultTimeout + 1) }

\* the parsed command line
Args(pattern, category, status, limit, parallel, timeout, skip) ==
    [filter |-> pattern, category |-> category, status |-> status, limit |-> limit,
     parallel |-> parallel, timeout |-> timeout, skip_clone |-> skip]

\* a file of the results directory
File(state, rec) == [state |-> state, rec |-> rec]
NoFile == File("absent", None)
EmptyFile == File("empty", None)
GarbledFile == File("garbled", None)

VARIABLES
    args,        \* the parsed command line
    manifest,    \* the manifest file: [state, data]
    agnix_bin,   \* whether the agnix binary exists
    store,       \* results directory: slug -> file
    dirs,        \* clones directory: slug -> "absent" | "partial" | "complete"
    mpc,         \* where main is
    repos,       \* main's list of entries
    done,
    failed,
    results,
    collected,   \* futures as_completed has yielded
    exit_code,   \* None while the process runs
    report,      \* the totals main prints at its end, None before
    worker,      \* pool thread -> the entry it runs, 0 when idle
    epc,         \* entry -> where process_repo is for it
    rec,         \* entry -> the result dictionary being written
    res,         \* entry -> what process_repo returned
    log,         \* entry -> the steps taken for it, in order
    seen,        \* entry -> the record in the store when it was found there
    run,         \* number of this run
    fetches,     \* git clones launched in this run
    invocations, \* agnix runs in this run
    snap,        \* the store as the previous run left it
    tool_in,     \* run_agnix on its own: what the tool does
    outcome      \* run_agnix on its own: what it returned

vars ==
    <<args, manifest, agnix_bin, store, dirs, mpc, repos, done, failed, results,
      collected, exit_code, report, worker, epc, rec, res, log, seen, run, fetches,
      invocations, snap, tool_in, outcome>>

inputs == <<args, manifest, agnix_bin, tool_in, outcome>>
mainvars == <<mpc, repos, done, failed, results, collected, exit_code, report>>

N == Len(repos)
Finished(i) == epc[i] \in {"returned", "raised"}
Threads == 1..args.parallel

\* nothing has run yet
Fresh ==
    /\ store = [s \in Slugs |-> NoFile]
    /\ mpc = "start"
    /\ repos = <<>>
    /\ done = 0
    /\ failed = 0
    /\ results = <<>>
    /\ collected = {}
    /\ exit_code = None
    /\ report = None
    /\ worker = [t \in 1..MaxParallel |-> 0]
    /\ epc = <<>>
    /\ rec = <<>>
    /\ res = <<>>
    /\ log = <<>>
    /\ seen = <<>>
    /\ run = 1
    /\ fetches = 0
    /\ invocations = 0
    /\ snap = None

Init ==
    /\ \E par \in 0..MaxParallel, skip \in BOOLEAN :
           args = Args(None, None, "pending", None, par, DefaultTimeout, skip)
    /\ \/ \E st \in {"missing", "unparseable"} : manifest = [state |-> st, data |-> <<>>]
       \/ \E data \in Manifests : manifest = [state |-> "ok", data |-> data]
    /\ agnix_bin \in BOOLEAN
    /\ dirs \in [Slugs -> {"absent", "complete"}]
    /\ tool_in = None
    /\ outcome = None
    /\ Fresh

(***************************************************************************)
(* main, up to the pool: the manifest is looked for, the output            *)
(* directories are made, the manifest is loaded, filtered and cut to       *)
(* --limit, the binary is looked for.  sys.exit(1) and an exception that   *)
(* leaves main both end the process with code 1.                           *)
(***************************************************************************)
selected(a, m) ==
    apply_limit(load_repos(m.data, a.filter, a.category, a.status), a.limit)

\* main without the test of the binary
startup_without_binary_test(a, m, bin) ==
    IF m.state = "missing" THEN "exit1"
    ELSE IF m.state = "unparseable" THEN "exit1"
    ELSE IF load_repos_raises(m.data, a.filter, a.category, a.status) THEN "exit1"
    ELSE IF selected(a, m) = <<>> THEN "exit0"
    ELSE "run"

startup(a, m, bin) ==
    IF m.state = "missing" THEN "exit1"
    ELSE IF m.state = "unparseable" THEN "exit1"
    ELSE IF load_repos_raises(m.data, a.filter, a.category, a.status) THEN "exit1"
    ELSE IF ~bin THEN "exit1"
    ELSE IF selected(a, m) = <<>> THEN "exit0"
    ELSE "run"

MainStart ==
    /\ mpc = "start"
    /\ LET how == startup(args, manifest, agnix_bin)
       IN  /\ mpc' = IF how = "run" THEN "pool" ELSE "exit"
           /\ exit_code' = IF how = "exit1" THEN Some(1)
                           ELSE IF how = "exit0" THEN Some(0) ELSE None
           /\ repos' = IF how = "run" THEN selected(args, manifest) ELSE <<>>
    /\ UNCHANGED <<inputs, store, dirs, done, failed, results, collected, report,
                   worker, epc, rec, res, log, seen, run, fetches, invocations, snap>>

\* ThreadPoolExecutor(max_workers) raises ValueError unless max_workers > 0
pool_raises(a) == a.parallel <= 0

\* the pool is made and every entry is submitted, in the order of repos
MainSubmit ==
    /\ mpc = "pool"
    /\ IF pool_raises(args)
       THEN /\ mpc' = "exit"
            /\ exit_code' = Some(1)
            /\ UNCHANGED <<epc, rec, res, log, seen>>
       ELSE /\ mpc' = "collect"
            /\ exit_code' = None
            /\ epc' = [i \in 1..N |-> "queued"]
            /\ rec' = [i \in 1..N |-> None]
            /\ res' = [i \in 1..N |-> None]
            /\ log' = [i \in 1..N |-> <<>>]
            /\ seen' = [i \in 1..N |-> None]
    /\ UNCHANGED <<inputs, store, dirs, repos, done, failed, results, collected,
                   report, worker, run, fetches, invocations, snap>>

(***************************************************************************)
(* The pool's threads and process_repo.                                    *)
(***************************************************************************)
\* the steps taken for entry i, with evs added
Logged(i, evs) == [log EXCEPT ![i] = @ \o evs]

Release(i) == [t \in DOMAIN worker |-> IF worker[t] = i THEN 0 ELSE worker[t]]

\* the work queue is first in, first out
next_queued == CHOOSE i \in DOMAIN epc : epc[i] = "queued" /\ \A j \in 1..(i - 1) : epc[j] # "queued"

\* a thread that takes an entry while it runs another
may_take_when_busy(t) == \A u \in 1..(t - 1) : worker[u] # 0

\* an idle thread may take an entry; the idle threads are alike, the first
\* of them is the one that takes it
may_take(t) == worker[t] = 0 /\ \A u \in 1..(t - 1) : worker[u] # 0

\* a test of the result file that never finds it
has_result_never(file) == FALSE

\* the exists() test of the result file
has_result(file) == file.state # "absent"

\* where process_repo goes after the test of the result file
after_lookup(found, skip) ==
    IF found THEN "load" ELSE IF skip THEN "run" ELSE "clone"

\* lines 113-118: an idle thread takes the next entry; repo["url"] raises
\* KeyError, repo_slug may raise IndexError; then result_file.exists()
Begin(t) ==
    /\ mpc \in {"collect", "crashed"}
    /\ t \in Threads
    /\ may_take(t)
    /\ \E i \in DOMAIN epc : epc[i] = "queued"
    /\ LET i == next_queued
           repo == repos[i]
       IN  IF repo.url = None \/ slug_raises(repo.url[1])
           THEN /\ epc' = [epc EXCEPT ![i] = "raised"]
                /\ UNCHANGED <<worker, seen, log>>
           ELSE LET file == store[repo_slug(repo.url[1])]
                IN  /\ epc' = [epc EXCEPT ![i] =
                                   after_lookup(has_result(file), args.skip_clone)]
                    /\ worker' = [worker EXCEPT ![t] = i]
                    /\ log' = Logged(i, IF has_result(file) THEN <<"hit">> ELSE <<"miss">>)
                    /\ seen' = [seen EXCEPT ![i] =
                                    IF has_result(file) THEN Some(file) ELSE None]
    /\ UNCHANGED <<inputs, store, dirs, mainvars, rec, res, run, fetches,
                   invocations, snap>>

\* json.load of a file that holds a whole record returns it; of any other it raises
load_raises(file) == file.state # "whole"

\* lines 119-120
Load(i) ==
    /\ epc[i] = "load"
    /\ LET file == store[repo_slug(repos[i].url[1])]
       IN  IF load_raises(file)
           THEN /\ epc' = [epc EXCEPT ![i] = "raised"]
                /\ UNCHANGED res
           ELSE /\ epc' = [epc EXCEPT ![i] = "returned"]
                /\ res' = [res EXCEPT ![i] = file.rec]
    /\ worker' = Release(i)
    /\ log' = Logged(i, <<"load">>)
    /\ UNCHANGED <<inputs, store, dirs, mainvars, rec, seen, run, fetches,
                   invocations, snap>>

SlugOf(i) == repo_slug(repos[i].url[1])

\* where process_repo goes once clone_repo has returned (clone_ok, clone_msg)
after_clone(clone_ok) == IF clone_ok THEN "run" ELSE "open"

\* a clone_repo that returns while git still runs
after_launch_without_wait == "run"

\* clone_repo waits for the git it launched
after_launch == "fetching"

\* line 123 into clone_repo, line 48: clone_dir.exists()
CloneCheck(i) ==
    /\ epc[i] = "clone"
    /\ IF dirs[SlugOf(i)] # "absent"
       THEN /\ epc' = [epc EXCEPT ![i] = after_clone(already_cloned.ok)]
            /\ log' = Logged(i, <<"clone", "already">>)
       ELSE /\ epc' = [epc EXCEPT ![i] = "fetch"]
            /\ log' = Logged(i, <<"clone">>)
    /\ UNCHANGED <<inputs, store, dirs, mainvars, worker, rec, res, seen, run,
                   fetches, invocations, snap>>

\* git refuses a destination that exists and is not empty
GitRefuses == Git("run", 128, <<"x", " ">>, 0)

\* lines 51-63: git is launched.  It creates the directory; when another
\* clone has created it since line 48, git either refuses it or, finding it
\* still empty, fetches into it as well
FetchStart(i) ==
    /\ epc[i] = "fetch"
    /\ fetches' = fetches + 1
    /\ \/ /\ dirs[SlugOf(i)] \in {"absent", "partial"}
          /\ dirs' = [dirs EXCEPT ![SlugOf(i)] = "partial"]
          /\ epc' = [epc EXCEPT ![i] = after_launch]
          /\ log' = Logged(i, <<"fetch">>)
          /\ UNCHANGED rec
       \/ /\ dirs[SlugOf(i)] # "absent"
          /\ epc' = [epc EXCEPT ![i] = after_clone(clone_result(GitRefuses).ok)]
          /\ rec' = [rec EXCEPT ![i] =
                         Some(clone_failed_record(repos[i], clone_result(GitRefuses).msg))]
          /\ log' = Logged(i, <<"fetch", "clone_failed">>)
          /\ UNCHANGED dirs
    /\ UNCHANGED <<inputs, store, mainvars, worker, res, seen, run, invocations, snap>>

\* lines 63-72 and 124-135: git ends, or is killed at the timeout
FetchEnd(i) ==
    /\ epc[i] = "fetching"
    /\ \E git \in Gits :
          LET r == clone_result(git)
          IN  /\ dirs' = [dirs EXCEPT ![SlugOf(i)] = dir_after(git)]
              /\ epc' = [epc EXCEPT ![i] = after_clone(r.ok)]
              /\ rec' = [rec EXCEPT ![i] =
                             IF r.ok THEN None
                             ELSE Some(clone_failed_record(repos[i], r.msg))]
              /\ log' = Logged(i, IF r.ok THEN <<"cloned">> ELSE <<"clone_failed">>)
    /\ UNCHANGED <<inputs, store, mainvars, worker, res, seen, run, fetches,
                   invocations, snap>>

\* lines 137-158: without a clone directory a failure is recorded, with one
\* agnix is run on it
Run(i) ==
    /\ epc[i] = "run"
    /\ IF dirs[SlugOf(i)] = "absent"
       THEN /\ rec' = [rec EXCEPT ![i] = Some(no_directory_record(repos[i]))]
            /\ epc' = [epc EXCEPT ![i] = "open"]
            /\ log' = Logged(i, <<"nodir">>)
            /\ UNCHANGED <<invocations, worker>>
       ELSE /\ \E tool \in Tools :
                  IF run_agnix_raises(tool, args.timeout)
                  THEN /\ epc' = [epc EXCEPT ![i] = "raised"]
                       /\ worker' = Release(i)
                       /\ UNCHANGED rec
                  ELSE /\ epc' = [epc EXCEPT ![i] = "open"]
                       /\ rec' = [rec EXCEPT ![i] =
                                      Some(validated_record(repos[i],
                                                            run_agnix(tool, args.timeout)))]
                       /\ UNCHANGED worker
            /\ log' = Logged(i, <<"invoke">>)
            /\ invocations' = invocations + 1
    /\ UNCHANGED <<inputs, store, dirs, mainvars, res, seen, run, fetches, snap>>

\* open(result_file, "w") creates the file or truncates it
opened(file) == EmptyFile

\* lines 133, 146, 160
Open(i) ==
    /\ epc[i] = "open"
    /\ store' = [store EXCEPT ![SlugOf(i)] = opened(@)]
    /\ epc' = [epc EXCEPT ![i] = "dump"]
    /\ log' = Logged(i, <<"open">>)
    /\ UNCHANGED <<inputs, dirs, mainvars, worker, rec, res, seen, run, fetches,
                   invocations, snap>>

\* json.dump and the close that flushes it write the record from offset 0:
\* over an empty file that leaves the record, over what another writer of the
\* same file has written since this one opened it, the record or, when the
\* other text was longer, the record followed by the rest of that text
written(file, r) ==
    IF file.state = "empty" \/ file = File("whole", Some(r))
    THEN {File("whole", Some(r))}
    ELSE {File("whole", Some(r)), GarbledFile}

\* lines 134-135, 147-148, 161-163
Dump(i) ==
    /\ epc[i] = "dump"
    /\ \E f \in written(store[SlugOf(i)], rec[i][1]) :
          store' = [store EXCEPT ![SlugOf(i)] = f]
    /\ res' = [res EXCEPT ![i] = rec[i]]
    /\ epc' = [epc EXCEPT ![i] = "returned"]
    /\ worker' = Release(i)
    /\ log' = Logged(i, <<"dump">>)
    /\ UNCHANGED <<inputs, dirs, mainvars, rec, seen, run, fetches, invocations, snap>>

(***************************************************************************)
(* main, from the as_completed loop on.                                    *)
(***************************************************************************)
\* line 259 raises KeyError for an entry without url
handler_raises(repo) == repo.url = None

\* one iteration of the loop, lines 250-262
MainCollect(i) ==
    /\ mpc = "collect"
    /\ i \in (1..N) \ collected
    /\ Finished(i)
    /\ collected' = collected \cup {i}
    /\ done' = done + 1
    /\ results' = IF epc[i] = "returned" THEN Append(results, res[i][1]) ELSE results
    /\ failed' = IF epc[i] = "raised" \/ print_summary_raises(res[i][1])
                 THEN failed + 1 ELSE failed
    /\ mpc' = IF epc[i] = "raised" /\ handler_raises(repos[i]) THEN "crashed"
              ELSE IF collected' = 1..N THEN "aggregate"
              ELSE "collect"
    /\ UNCHANGED <<inputs, store, dirs, repos, exit_code, report, worker, epc, rec,
                   res, log, seen, run, fetches, invocations, snap>>

\* an exception leaves the with block: the pool is shut down, which waits
\* for every submitted entry, and the process ends with a traceback
MainAbort ==
    /\ mpc = "crashed"
    /\ \A i \in DOMAIN epc : Finished(i)
    /\ mpc' = "exit"
    /\ exit_code' = Some(1)
    /\ UNCHANGED <<inputs, store, dirs, repos, done, failed, results, collected,
                   report, worker, epc, rec, res, log, seen, run, fetches,
                   invocations, snap>>

\* lines 264-289: the totals are computed and printed and main returns, the
\* process ends with code 0; when the loop raises nothing is printed and the
\* process ends with a traceback
MainAggregate ==
    /\ mpc = "aggregate"
    /\ mpc' = "exit"
    /\ exit_code' = IF aggregate_raises(results) THEN Some(1) ELSE Some(0)
    /\ report' = IF aggregate_raises(results) THEN None ELSE Some(aggregate(results))
    /\ UNCHANGED <<inputs, store, dirs, repos, done, failed, results, collected,
                   worker, epc, rec, res, log, seen, run, fetches, invocations, snap>>

\* the harness is run again on the same manifest and output directory
Rerun ==
    /\ mpc = "exit"
    /\ run < MaxRuns
    /\ run' = run + 1
    /\ snap' = Some(store)
    /\ mpc' = "start"
    /\ repos' = <<>>
    /\ done' = 0
    /\ failed' = 0
    /\ results' = <<>>
    /\ collected' = {}
    /\ exit_code' = None
    /\ report' = None
    /\ epc' = <<>>
    /\ rec' = <<>>
    /\ res' = <<>>
    /\ log' = <<>>
    /\ seen' = <<>>
    /\ fetches' = 0
    /\ invocations' = 0
    /\ UNCHANGED <<inputs, store, dirs, worker>>

Next ==
    \/ MainStart
    \/ MainSubmit
    \/ \E t \in 1..MaxParallel : Begin(t)
    \/ \E i \in DOMAIN epc : Load(i)
    \/ \E i \in DOMAIN epc : CloneCheck(i)
    \/ \E i \in DOMAIN epc : FetchStart(i)
    \/ \E i \in DOMAIN epc : FetchEnd(i)
    \/ \E i \in DOMAIN epc : Run(i)
    \/ \E i \in DOMAIN epc : Open(i)
    \/ \E i \in DOMAIN epc : Dump(i)
    \/ \E i \in DOMAIN epc : MainCollect(i)
    \/ MainAbort
    \/ MainAggregate
    \/ Rerun

Spec == Init /\ [][Next]_vars

(***************************************************************************)
(* The harness under fair scheduling: a step of main or of a pool thread   *)
(* that can be taken is taken in the end, since the threads are scheduled  *)
(* by the operating system and git and agnix are killed at their timeouts. *)
(* Running the harness again is left to the user.                          *)
(***************************************************************************)
HarnessStep ==
    \/ MainStart
    \/ MainSubmit
    \/ \E t \in 1..MaxParallel : Begin(t)
    \/ \E i \in DOMAIN epc : Load(i)
    \/ \E i \in DOMAIN epc : CloneCheck(i)
    \/ \E i \in DOMAIN epc : FetchStart(i)
    \/ \E i \in DOMAIN epc : FetchEnd(i)
    \/ \E i \in DOMAIN epc : Run(i)
    \/ \E i \in DOMAIN epc : Open(i)
    \/ \E i \in DOMAIN epc : Dump(i)
    \/ \E i \in DOMAIN epc : MainCollect(i)
    \/ MainAbort
    \/ MainAggregate

LiveInit == Init /\ Len(manifest.data) <= MaxLiveEntries

SpecFair == LiveInit /\ [][Next]_vars /\ WF_vars(HarnessStep)

(***************************************************************************)
(* run_agnix on its own: any tool, any --timeout.                          *)
(***************************************************************************)
AllTools ==
    { Tool("run", rc, Stdout(k, <<>>), err, dur) :
          rc \in {-1, 0, 1}, k \in {"obj", "other", "null", "text", "deep", "bytes"},
          err \in {<<>>, <<"e", " ">>, <<"agnix timeout">>},
          dur \in 0..(MaxTimeout + 1) }
        \cup { Tool("exc", 0, Stdout("text", <<>>), text, 0) :
                   text \in {<<"no such file">>, <<"agnix timeout">>} }

InvokeInit ==
    /\ \E t \in 0..MaxTimeout : args = Args(None, None, "pending", None, 1, t, FALSE)
    /\ manifest = [state |-> "ok", data |-> <<>>]
    /\ agnix_bin = TRUE
    /\ dirs = [s \in Slugs |-> "complete"]
    /\ \E tool \in AllTools : tool_in = Some(tool)
    /\ outcome = None
    /\ Fresh

\* an exception that leaves run_agnix is kept as [raised |-> its class]
Invoke ==
    /\ outcome = None
    /\ outcome' = IF run_agnix_raises(tool_in[1], args.timeout)
                  THEN Some([raised |-> raised_in_try(tool_in[1], args.timeout)[1]])
                  ELSE Some(run_agnix(tool_in[1], args.timeout))
    /\ UNCHANGED <<args, manifest, agnix_bin, tool_in, store, dirs, mainvars, worker,
                   epc, rec, res, log, seen, run, fetches, invocations, snap>>

InvokeNext == Invoke

SpecInvoke == InvokeInit /\ [][InvokeNext]_vars

(***************************************************************************)
(* load_repos and --limit on their own: any filters, any cap, entries      *)
(* with and without status and categories, URLs in either case.            *)
(***************************************************************************)
UrlUp == <<"A", "/", "q">>

LoadEntries ==
    { Entry(Some(UrlA), None, None),
      Entry(Some(UrlA), Some("done"), Some({"x"})),
      Entry(Some(UrlA), Some("pending"), Some({"x", "y"})),
      Entry(Some(UrlUp), Some("pending"), Some({"x"})),
      Entry(Some(UrlUp), None, Some({"y"})),
      Entry(None, None, Some({"x"})) }

LoadManifests == UNION { [1..n -> LoadEntries] : n \in 0..MaxEntries }

\* --filter, --category, --status and --limit (type=int) as argparse gives them
Patterns == {None, Some(<<>>), Some(<<"a">>), Some(<<"Q">>)}
Categories == {None, Some(""), Some("x")}
Statuses == {"pending", "done", ""}
Limits == {None} \cup { Some(n) : n \in -1..MaxEntries }

LoadInit ==
    /\ \E pattern \in Patterns, category \in Categories, status \in Statuses,
          limit \in Limits :
           args = Args(pattern, category, status, limit, 1, DefaultTimeout, FALSE)
    /\ \E data \in LoadManifests : manifest = [state |-> "ok", data |-> data]
    /\ agnix_bin = TRUE
    /\ dirs = [s \in Slugs |-> "absent"]
    /\ tool_in = None
    /\ outcome = None
    /\ Fresh

LoadNext == MainStart

SpecLoad == LoadInit /\ [][LoadNext]_vars

(***************************************************************************)
(* The aggregate of main on its own: any results collected by the loop.    *)
(***************************************************************************)
Diag(rule) == [rule |-> rule]

DiagLists ==
    { <<>>,
      <<Diag(Some("R1"))>>,
      <<Diag(Some("R1")), Diag(Some("R1")), Diag(Some("R2"))>>,
      <<Diag(Some("R2")), Diag(None)>> }

AggEntry == Entry(Some(UrlA), None, None)

\* records process_repo returns: a clone that failed, a tool that printed
\* no JSON, a tool that printed an object with diagnostics, a tool that
\* printed JSON that is not an object
AggRecords ==
    { clone_failed_record(AggEntry, <<"clone timeout">>),
      validated_record(AggEntry, run_agnix(Tool("run", 1, Stdout("text", <<>>), <<>>, 0),
                                           DefaultTimeout)),
      validated_record(AggEntry, run_agnix(Tool("run", 0, Stdout("other", <<>>), <<>>, 0),
                                           DefaultTimeout)) }
        \cup { validated_record(AggEntry,
                                run_agnix(Tool("run", 0, Stdout("obj", diags), <<>>, 0),
                                          DefaultTimeout)) : diags \in DiagLists }

\* main at line 264, the loop over the futures just ended
AggInit ==
    /\ args = Args(None, None, "pending", None, 1, DefaultTimeout, FALSE)
    /\ agnix_bin = TRUE
    /\ dirs = [s \in Slugs |-> "complete"]
    /\ tool_in = None
    /\ outcome = None
    /\ \E n \in 1..MaxEntries : \E rs \in [1..n -> AggRecords] :
          /\ manifest = [state |-> "ok", data |-> [k \in 1..n |-> AggEntry]]
          /\ repos = [k \in 1..n |-> AggEntry]
          /\ results = rs
          /\ res = [k \in 1..n |-> Some(rs[k])]
          /\ epc = [k \in 1..n |-> "returned"]
          /\ rec = [k \in 1..n |-> None]
          /\ log = [k \in 1..n |-> <<>>]
          /\ seen = [k \in 1..n |-> None]
          /\ collected = 1..n
          /\ done = n
          /\ failed = Cardinality({k \in 1..n : print_summary_raises(rs[k])})
          /\ store = [s \in Slugs |->
                         IF s = repo_slug(UrlA) THEN File("whole", Some(rs[n])) ELSE NoFile]
    /\ mpc = "aggregate"
    /\ exit_code = None
    /\ report = None
    /\ worker = [t \in 1..MaxParallel |-> 0]
    /\ run = 1
    /\ fetches = 0
    /\ invocations = 0
    /\ snap = None

AggNext == MainAggregate

SpecAggregate == AggInit /\ [][AggNext]_vars

(***************************************************************************)
(* Properties.                                                             *)
(***************************************************************************)
Steps(i) == { log[i][k] : k \in 1..Len(log[i]) }
InProgress == { i \in DOMAIN epc : epc[i] \notin {"queued", "returned", "raised"} }
HasUrl(repo) == repo.url # None

\* C1: an entry whose result file held a whole record when process_repo
\* looked for it is neither cloned nor validated nor written, and
\* process_repo returns the record the file holds: the one it held then or
\* the one it holds when it is read
CacheHitShortCircuit ==
    [][\A i \in DOMAIN seen :
           (seen[i] # None /\ seen[i][1].state = "whole" /\ i \in DOMAIN epc') =>
               /\ Steps(i) \subseteq {"hit", "load"}
               /\ (epc[i] = "load" /\ epc'[i] # "load") =>
                      /\ epc'[i] = "returned"
                      /\ res'[i] \in {seen[i][1].rec, store[SlugOf(i)].rec}]_vars

\* C2: in a run after the first, over the same manifest and output
\* directory, no git clone is launched, agnix is never run and every result
\* file is as the run before left it
RerunIsIdempotent ==
    run > 1 => (fetches = 0 /\ invocations = 0 /\ store = snap[1])

RerunWitness ==
    /\ run = 2
    /\ mpc = "exit"
    /\ Len(repos) >= 2
    /\ collected = DOMAIN epc
    /\ \E i \in DOMAIN epc : epc[i] = "returned" /\ res[i][1].clone_success
    /\ \E i \in DOMAIN epc : epc[i] = "returned" /\ ~res[i][1].clone_success

\* C3: whoever looks for a result file while it is being written finds no
\* file or the whole record, never a file without a whole record
PutIsAtomic ==
    \A i \in DOMAIN seen : seen[i] # None => seen[i][1].state = "whole"

\* C4: for an entry that is not found in the store, every git clone launched
\* for it has ended before agnix is run, clone_repo has returned success
\* before agnix is run unless --skip-clone is given, nothing but the write
\* follows the opening of the result file, and a record that reports an
\* agnix outcome, or a clone failure, is opened after that step
WithinEntryOrder ==
    \A i \in DOMAIN log :
        LET l == log[i]
        IN  \A k \in 1..Len(l) :
                /\ l[k] = "invoke" =>
                      /\ \A j \in 1..(k - 1) :
                             l[j] = "fetch" =>
                                 \E m \in (j + 1)..(k - 1) : l[m] \in {"cloned", "clone_failed"}
                      /\ \A j \in (k + 1)..Len(l) : l[j] \in {"open", "dump"}
                      /\ ~args.skip_clone =>
                             \E j \in 1..(k - 1) : l[j] \in {"already", "cloned"}
                /\ l[k] = "open" =>
                      /\ \A j \in (k + 1)..Len(l) : l[j] = "dump"
                      /\ rec[i] # None
                      /\ rec[i][1].agnix # None => \E j \in 1..(k - 1) : l[j] = "invoke"
                      /\ rec[i][1].agnix = None =>
                             \E j \in 1..(k - 1) : l[j] \in {"clone_failed", "nodir"}

OrderWitness ==
    \E i \in DOMAIN log :
        /\ log[i] = <<"miss", "clone", "fetch", "cloned", "invoke", "open", "dump">>
        /\ epc[i] = "returned"
        /\ InProgress # {}

\* C5: an entry whose clone_repo returned failure is never validated, and
\* the write that ends its processing leaves in the result file of its slug
\* the record with clone_success false, the failure message and no agnix
FailedCloneIsRecorded ==
    [][\A i \in DOMAIN log :
           ("clone_failed" \in Steps(i) /\ i \in DOMAIN epc') =>
               /\ "invoke" \notin Steps(i)
               /\ (epc[i] = "dump" /\ epc'[i] = "returned") =>
                      /\ store'[SlugOf(i)].state = "whole"
                      /\ store'[SlugOf(i)].rec = rec[i]
                      /\ ~rec[i][1].clone_success
                      /\ rec[i][1].clone_error # None
                      /\ rec[i][1].agnix = None]_vars

\* C6: an exception of process_repo never leaves the as_completed loop, it
\* is counted once, and a run that submitted entries ends with every entry
\* run to its end and collected
WorkerFaultIsIsolated ==
    /\ mpc # "crashed"
    /\ (mpc = "exit" /\ epc # <<>>) =>
           /\ \A i \in DOMAIN epc : Finished(i)
           /\ collected = DOMAIN epc
           /\ failed >= Cardinality({i \in DOMAIN epc : epc[i] = "raised"})

\* C7: with a manifest that parses, entries that all have a URL, the binary
\* in place and a worker count above 0, the process never ends with a code
\* other than 0
PerItemFailuresExitZero ==
    ( /\ manifest.state = "ok"
      /\ agnix_bin
      /\ args.parallel > 0
      /\ \A k \in 1..Len(manifest.data) : HasUrl(manifest.data[k])
      /\ exit_code # None ) => exit_code = Some(0)

\* C8: when the manifest is missing or does not parse, or the binary is
\* missing, no entry is submitted, cloned or validated, no result file is
\* written, and the process ends with code 1
ConfigErrorAborts ==
    (manifest.state # "ok" \/ ~agnix_bin) =>
        /\ epc = <<>>
        /\ InProgress = {}
        /\ fetches = 0
        /\ invocations = 0
        /\ store = [s \in Slugs |-> NoFile]
        /\ mpc \in {"start", "exit"}
        /\ mpc = "exit" => exit_code = Some(1)

ConfigErrorWitness ==
    /\ mpc = "exit"
    /\ manifest.state = "ok"
    /\ Len(manifest.data) >= 2
    /\ \A k \in 1..Len(manifest.data) : HasUrl(manifest.data[k])
    /\ ~agnix_bin
    /\ args.parallel > 0

\* C9: the entries in progress are held one each by the threads of the pool,
\* so there are at most --parallel of them, and a thread holds an entry
\* until process_repo has ended for it
BoundedParallelism ==
    /\ Cardinality(InProgress) <= args.parallel
    /\ \A i \in InProgress : \E t \in Threads : worker[t] = i
    /\ \A t \in DOMAIN worker : worker[t] # 0 => worker[t] \in InProgress
    /\ \A t, u \in DOMAIN worker : (worker[t] # 0 /\ worker[t] = worker[u]) => t = u

ParallelismWitness ==
    /\ Cardinality(InProgress) = args.parallel
    /\ args.parallel >= 2
    /\ \E i \in DOMAIN epc : epc[i] = "queued"

\* C10: when the tool runs longer than --timeout, run_agnix returns exit
\* code -1, no output, stderr "agnix timeout" and timeout * 1000 ms; when it
\* cannot be launched, exit code -1, no output, the exception's text and 0 ms
TimeoutOutcome ==
    outcome # None =>
        /\ (tool_in[1].kind = "run" /\ tool_in[1].dur > args.timeout) =>
               outcome[1] = [exit_code |-> -1, output |-> None,
                             stderr |-> Some(<<"agnix timeout">>),
                             wall_time_ms |-> args.timeout * 1000]
        /\ tool_in[1].kind = "exc" =>
               outcome[1] = [exit_code |-> -1, output |-> None,
                             stderr |-> Some(tool_in[1].stderr), wall_time_ms |-> 0]

TimeoutWitness ==
    /\ outcome # None
    /\ tool_in[1].kind = "run"
    /\ tool_in[1].dur > args.timeout
    /\ args.timeout > 0
    /\ tool_in[1].stdout.kind = "obj"
    /\ tool_in[1].returncode = 0

\* C11: whatever the tool does (any exit code, any output, a timeout, a
\* failure to launch), run_agnix returns a dictionary with exactly the keys
\* exit_code, output, stderr and wall_time_ms; no exception leaves it
ToolInvokerNeverRaises ==
    outcome # None =>
        /\ DOMAIN outcome[1] = {"exit_code", "output", "stderr", "wall_time_ms"}
        /\ outcome[1].exit_code \in Int
        /\ outcome[1].wall_time_ms \in Nat
        /\ outcome[1].output = None \/ Len(outcome[1].output) = 1
        /\ outcome[1].stderr = None \/ Len(outcome[1].stderr) = 1

NeverRaisesWitness ==
    /\ outcome # None
    /\ tool_in[1].kind = "exc"
    /\ tool_in[1].stderr = <<"no such file">>
    /\ outcome[1].stderr = Some(<<"no such file">>)

\* C12: when the tool ends within the timeout and what it printed does not
\* parse, the outcome has no output, the exit code of the process and the
\* measured duration
UnparseableDegrades ==
    ( /\ outcome # None
      /\ tool_in[1].kind = "run"
      /\ tool_in[1].dur <= args.timeout
      /\ tool_in[1].stdout.kind \in {"text", "deep", "bytes"} ) =>
        /\ outcome[1].output = None
        /\ outcome[1].exit_code = tool_in[1].returncode
        /\ outcome[1].wall_time_ms = tool_in[1].dur * 1000

\* C13: the entries main goes on with, when no --limit is given, are exactly
\* the entries of the manifest, in its order, whose status ("pending" when
\* missing) equals --status, whose categories contain --category when it is
\* given, and whose URL contains --filter, whatever the case, when it is given
FilterCorrect ==
    LET Matches(r) ==
            /\ GetOr(r.status, "pending") = args.status
            /\ args.category # None => args.category[1] \in GetOr(r.categories, {})
            /\ args.filter # None =>
                   (r.url # None /\ Contains(lower(r.url[1]), lower(args.filter[1])))
    IN  (mpc # "start" /\ args.limit = None) =>
            repos = SelectSeq(manifest.data, Matches)

\* C14: with --limit N, N >= 0, the entries main goes on with are the first N
\* of the filtered sequence, all of it when it is shorter
ResultCap ==
    LET FirstN(seq, n) == SubSeq(seq, 1, IF n < Len(seq) THEN n ELSE Len(seq))
    IN  ( /\ mpc # "start"
          /\ args.limit # None
          /\ args.limit[1] >= 0
          /\ \A k \in 1..Len(manifest.data) : HasUrl(manifest.data[k]) ) =>
            repos = FirstN(load_repos(manifest.data, args.filter, args.category,
                                      args.status),
                           args.limit[1])

\* C15: when the run ends, the totals printed are: the number of diagnostics
\* of the collected records with clone_success and an output, for each rule
\* the number of those diagnostics that carry it, and the number of those
\* records without a diagnostic; the other records count for nothing
AggregateCorrect ==
    LET counted == { k \in 1..Len(results) :
                         results[k].clone_success /\ results[k].agnix[1].output # None }
        diags(k) == results[k].agnix[1].output[1].diagnostics
        all == { <<k, j>> \in counted \X (1..3) : j <= Len(diags(k)) }
        freq(rule) == IF rule \in DOMAIN report[1].rules_global
                      THEN report[1].rules_global[rule] ELSE 0
    IN  (mpc = "exit" /\ epc # <<>> /\ collected = DOMAIN epc) =>
            /\ report # None
            /\ report[1].total_diags = Cardinality(all)
            /\ \A rule \in {"R1", "R2", "R3"} :
                   freq(rule) = Cardinality({ p \in all : diags(p[1])[p[2]].rule = Some(rule) })
            /\ report[1].clean_repos = Cardinality({ k \in counted : diags(k) = <<>> })

\* C16: done is the number of completions collected, failed the number of
\* them counted as failures, and a run that submitted entries ends with
\* done equal to the number of entries submitted
CountersExact ==
    /\ done = Cardinality(collected)
    /\ failed = Cardinality({ i \in collected :
                                 epc[i] = "raised" \/ print_summary_raises(res[i][1]) })
    /\ (mpc = "exit" /\ epc # <<>>) => done = Len(repos)

\* C17: two entries are never at the same time fetching into the same clone
\* directory, nor at the same time between the open and the close of the
\* same result file
NoPathCollision ==
    \A i, j \in DOMAIN epc :
        (i # j /\ epc[i] = epc[j] /\ epc[i] \in {"fetching", "dump"}) =>
            SlugOf(i) # SlugOf(j)

\* C18: a result file that holds a record is never changed again, in this
\* run or a later one
RecordsWriteOnce ==
    [][\A s \in Slugs : store[s].state = "whole" => store'[s] = store[s]]_vars

\* where process_repo is for an entry, as a state of the per-entry machine:
\* up to the test and the read of the result file the entry is PENDING, from
\* clone_repo to the test of the clone directory MATERIALIZING, while its
\* record is written INVOKING when agnix was run and MATERIALIZING-FAILED
\* when it was not, DONE once process_repo has returned
Phase(e, r) ==
    IF e \in {"queued", "load"} THEN "PENDING"
    ELSE IF e \in {"clone", "fetch", "fetching", "run"} THEN "MATERIALIZING"
    ELSE IF e \in {"open", "dump"}
         THEN IF r[1].agnix # None THEN "INVOKING" ELSE "MATERIALIZING-FAILED"
    ELSE IF e = "returned" THEN "DONE"
    ELSE "RAISED"

\* C19: an entry with a URL that has a slug goes from PENDING to DONE on a
\* cache hit, or from PENDING to MATERIALIZING and from there to INVOKING or
\* to MATERIALIZING-FAILED and then to DONE, and in no other way; DONE is
\* final; with --skip-clone an entry without a clone directory ends with a
\* clone_success false record, no git clone and no agnix run
EntryStateMachine ==
    [][\A i \in DOMAIN epc :
           ( /\ i \in DOMAIN epc'
             /\ HasUrl(repos[i])
             /\ ~slug_raises(repos[i].url[1]) ) =>
               LET from == Phase(epc[i], rec[i])
                   to == Phase(epc'[i], rec'[i])
               IN  /\ from # to =>
                          <<from, to>> \in
                              { <<"PENDING", "MATERIALIZING">>, <<"PENDING", "DONE">>,
                                <<"MATERIALIZING", "INVOKING">>,
                                <<"MATERIALIZING", "MATERIALIZING-FAILED">>,
                                <<"INVOKING", "DONE">>, <<"MATERIALIZING-FAILED", "DONE">> }
                   /\ (from = "PENDING" /\ to = "DONE") => epc[i] = "load"
                   /\ (args.skip_clone /\ to = "DONE" /\ "nodir" \in Steps(i)) =>
                          /\ ~res'[i][1].clone_success
                          /\ Steps(i) \cap {"fetch", "invoke"} = {}]_vars

\* C20: agnix is run on a clone directory only when the directory is a
\* complete clone: never on one whose git clone failed, was killed at the
\* timeout or still runs, for this entry or for another one of the same slug
OnlyCompleteWorkspaces ==
    [][\A i \in DOMAIN epc :
           (i \in DOMAIN epc' /\ epc[i] = "run" /\ "invoke" \in { log'[i][k] : k \in 1..Len(log'[i]) }) =>
               dirs[SlugOf(i)] = "complete"]_vars

\* C21: git clone is launched for an entry only while its clone directory
\* does not exist; when clone_repo finds the directory it returns success
\* and leaves it as it is; a clone directory that is complete is never
\* removed nor fetched into again, in this run or a later one
WorkspaceCreateOnce ==
    [][/\ \A i \in DOMAIN epc :
              i \in DOMAIN epc' =>
                  /\ (epc[i] = "fetch" /\ epc'[i] # "fetch") => dirs[SlugOf(i)] = "absent"
                  /\ (epc[i] = "clone" /\ epc'[i] # "clone" /\ dirs[SlugOf(i)] # "absent") =>
                         (epc'[i] = "run" /\ dirs' = dirs)
       /\ \A s \in Slugs : dirs[s] = "complete" => dirs'[s] = "complete"]_vars

\* C24: after each iteration of the as_completed loop, done is the number of
\* results collected plus the number of failures counted
CompletionAccounting ==
    done = Len(results) + failed

\* C25: every record process_repo hands to json.dump, and every record a
\* result file holds, has clone_success false exactly when agnix is None, has
\* a clone_error when clone_success is false, and has for slug the slug of
\* its url, which is the name of its file
RecordShape ==
    LET shaped(r, key) ==
            /\ (~r.clone_success) <=> (r.agnix = None)
            /\ (~r.clone_success) => r.clone_error # None
            /\ r.slug = repo_slug(r.url)
            /\ r.slug = key
    IN  /\ \A s \in Slugs : store[s].state = "whole" => shaped(store[s].rec[1], s)
        /\ \A i \in DOMAIN rec : rec[i] # None => shaped(rec[i][1], SlugOf(i))

RecordShapeWitness ==
    /\ \E s \in Slugs : store[s].state = "whole" /\ store[s].rec[1].clone_success
    /\ \E s \in Slugs : store[s].state = "whole" /\ ~store[s].rec[1].clone_success
    /\ \E s \in Slugs : store[s].rec # None /\ store[s].rec[1].url = UrlB

\* C22: the outcome of a tool that ended within the timeout and printed what
\* does not parse is never the outcome of the timeout path (-1, None,
\* "agnix timeout", timeout * 1000) nor one of the launch-failure path
\* (-1, None, a text, 0)
OutcomesDistinguishable ==
    ( /\ outcome # None
      /\ tool_in[1].kind = "run"
      /\ tool_in[1].dur <= args.timeout
      /\ tool_in[1].stdout.kind \in {"text", "deep", "bytes"} ) =>
        /\ outcome[1] # [exit_code |-> -1, output |-> None,
                         stderr |-> Some(<<"agnix timeout">>),
                         wall_time_ms |-> args.timeout * 1000]
        /\ ~ ( /\ outcome[1].exit_code = -1
               /\ outcome[1].output = None
               /\ outcome[1].stderr # None
               /\ outcome[1].wall_time_ms = 0 )

\* C23: under fair scheduling, once the entries are submitted the run comes
\* to its end with process_repo ended for every entry and done equal to the
\* number of entries submitted
Termination ==
    (mpc = "collect") ~>
        (mpc = "exit" /\ done = Len(repos) /\ \A i \in DOMAIN epc : Finished(i))

====
